---- MODULE Spec2Model ----
(***************************************************************************)
(* Model of src/main.py: the immutable value object CoffeeOrder and the    *)
(* fluent CoffeeOrderBuilder that validates selections, computes the price *)
(* and produces CoffeeOrder snapshots.                                     *)
(*                                                                         *)
(* Prices are Python floats in the source.  The model keeps them exactly,  *)
(* as integers counted in tenths of a rouble (0.2 is 2, 40.0 is 400, the   *)
(* multiplier 1.2 is 12 tenths), so that equality of prices is decidable.  *)
(* Every product BASE_PRICES[b] * SIZE_MULTIPLIERS[s] of the source is an  *)
(* integer that the float arithmetic yields exactly.                       *)
(***************************************************************************)
EXTENDS Integers, Sequences, FiniteSets, TLC

(***************************************************************************)
(* Python values.  Strings that the type hints declare as str are TLA+     *)
(* strings; the arguments of set_sugar and set_iced, whose types the code  *)
(* inspects with isinstance, carry their Python type.                      *)
(***************************************************************************)
None == "<None>"

PyInt(n) == [t |-> "int", v |-> n, s |-> ""]
PyBool(b) == [t |-> "bool", v |-> IF b THEN 1 ELSE 0, s |-> ""]
PyFloat(n) == [t |-> "float", v |-> n, s |-> ""]
PyS(x) == [t |-> "str", v |-> 0, s |-> x]
NoArg == [t |-> "NoneType", v |-> 0, s |-> ""]

\* isinstance(x, int): bool is a subclass of int in Python
IsInstanceInt(x) == x.t \in {"int", "bool"}
\* isinstance(x, bool)
IsInstanceBool(x) == x.t = "bool"
\* truth value of an int or bool
Truthy(x) == x.v # 0
\* str(x) as used by an f-string, for int and bool values
PyStr(x) == IF x.t = "bool" THEN (IF x.v = 1 THEN "True" ELSE "False") ELSE ToString(x.v)

(***************************************************************************)
(* The builder's class constants.                                          *)
(***************************************************************************)
BASE_PRICES == [espresso |-> 200, americano |-> 250, latte |-> 300, cappuccino |-> 320]
\* in tenths: 1.0, 1.2, 1.4
SIZE_MULTIPLIERS == [small |-> 10, medium |-> 12, large |-> 14]
\* a milk table without the entry for the default "none"
MILK_PRICES_nonone == [whole |-> 30, skim |-> 30, oat |-> 60, soy |-> 50]
\* 0.0, 30.0, 30.0, 60.0, 50.0 roubles
MILK_PRICES == [none |-> 0, whole |-> 30, skim |-> 30, oat |-> 60, soy |-> 50]
SYRUP_PRICE == 40
\* 0.2 roubles, in tenths of a rouble
ICED_EXTRA == 2
MAX_SYRUPS == 4
MAX_SUGAR == 5
MIN_SUGAR == 0

VALID_BASES == DOMAIN BASE_PRICES
VALID_SIZES == DOMAIN SIZE_MULTIPLIERS
VALID_MILKS == DOMAIN MILK_PRICES

(***************************************************************************)
(* Bounds of the model.                                                    *)
(***************************************************************************)
\* how many syrup names beyond MAX_SYRUPS the syrup specification offers
ExtraNames == 1
\* how far outside MIN_SUGAR..MAX_SUGAR the integer arguments of set_sugar go
SugarOver == 1

VARIABLES
    base,     \* self._base: None or a key of BASE_PRICES
    size,     \* self._size
    milk,     \* self._milk
    syrups,   \* contents of the list object self._syrups
    sugar,    \* self._sugar
    iced,     \* self._iced
    ret,      \* the last call on the builder and what it returned or raised
    order1    \* a CoffeeOrder the caller keeps from an earlier build, or NoOrder

vars == <<base, size, milk, syrups, sugar, iced, ret, order1>>
builder == <<base, size, milk, syrups, sugar, iced>>

Range(q) == {q[i] : i \in DOMAIN q}

(***************************************************************************)
(* CoffeeOrder.                                                            *)
(***************************************************************************)
RECURSIVE Join(_, _)
\* sep.join(parts)
Join(sep, parts) ==
    IF parts = <<>> THEN ""
    ELSE IF Len(parts) = 1 THEN parts[1]
    ELSE parts[1] \o sep \o Join(sep, Tail(parts))

\* tuple(self._syrups): a new immutable sequence holding the list's items
TupleAliased(lst) == [alias |-> TRUE, items |-> <<>>]
Tuple(lst) == [alias |-> FALSE, items |-> lst]

\* what reading a syrups reference gives when the builder's list holds lst
Items(ref, lst) == IF ref.alias THEN lst ELSE ref.items

\* _gen_description that appends the sugar before the ice
_gen_description_sugarfirst(o) ==
    Join(" ",
         <<o.size, o.base>>
         \o (IF o.milk # "none" THEN <<"with " \o o.milk \o " milk">> ELSE <<>>)
         \o (IF o.syrups # <<>> THEN <<"+" \o Join(", ", o.syrups)>> ELSE <<>>)
         \o (IF o.sugar.v > 0 THEN <<PyStr(o.sugar) \o " tsp sugar">> ELSE <<>>)
         \o (IF Truthy(o.iced) THEN <<"(iced)">> ELSE <<>>))

\* CoffeeOrder._gen_description
_gen_description(o) ==
    Join(" ",
         <<o.size, o.base>>
         \o (IF o.milk # "none" THEN <<"with " \o o.milk \o " milk">> ELSE <<>>)
         \o (IF o.syrups # <<>> THEN <<"+" \o Join(", ", o.syrups)>> ELSE <<>>)
         \o (IF Truthy(o.iced) THEN <<"(iced)">> ELSE <<>>)
         \o (IF o.sugar.v > 0 THEN <<PyStr(o.sugar) \o " tsp sugar">> ELSE <<>>))

\* CoffeeOrder.__init__ with description=None
CoffeeOrder(b, sz, m, syr, sg, ic, p) ==
    [base |-> b, size |-> sz, milk |-> m, syrups |-> syr, sugar |-> sg,
     iced |-> ic, price |-> p,
     description |-> _gen_description(
         [base |-> b, size |-> sz, milk |-> m, syrups |-> Items(syr, syrups),
          sugar |-> sg, iced |-> ic])]

\* CoffeeOrder.__init__ with an explicit description d, None for a derived one
CoffeeOrderDescribed(b, sz, m, syr, sg, ic, p, d) ==
    IF d # None
    THEN [base |-> b, size |-> sz, milk |-> m, syrups |-> syr, sugar |-> sg,
          iced |-> ic, price |-> p, description |-> d]
    ELSE CoffeeOrder(b, sz, m, syr, sg, ic, p)

\* f"{price:.2f}" of a price of p >= 0 tenths: the hundredths, two digits
Format2f(p) ==
    LET h == p * 10
    IN  ToString(h \div 100) \o "."
            \o (IF h % 100 < 10 THEN "0" ELSE "") \o ToString(h % 100)

\* __str__ that tests the description against None, not for emptiness
__str___notnone(o) ==
    IF o.description # None
    THEN o.description
    ELSE "Coffee order: " \o Format2f(o.price) \o " ₽"

\* CoffeeOrder.__str__
__str__(o) ==
    IF o.description # ""
    THEN o.description
    ELSE "Coffee order: " \o Format2f(o.price) \o " ₽"

NoOrder == [base |-> None, size |-> None, milk |-> None, syrups |-> Tuple(<<>>),
            sugar |-> PyInt(0), iced |-> PyBool(FALSE), price |-> 0, description |-> ""]

\* the fields of order o as a reader sees them when the builder's list holds lst
View(o, lst) == [o EXCEPT !.syrups = Items(o.syrups, lst)]

(***************************************************************************)
(* Results of a call.                                                      *)
(***************************************************************************)
Self(op, arg) == [op |-> op, arg |-> arg, out |-> "self", msg |-> "", order |-> NoOrder]
Raise(op, arg, exc, msg) == [op |-> op, arg |-> arg, out |-> exc, msg |-> msg, order |-> NoOrder]
Return(op, o) == [op |-> op, arg |-> NoArg, out |-> "CoffeeOrder", msg |-> "", order |-> o]

\* str(order) gave text
Text(o, text) == [op |-> "__str__", arg |-> NoArg, out |-> "str", msg |-> text, order |-> o]

(***************************************************************************)
(* CoffeeOrderBuilder.                                                     *)
(***************************************************************************)
Init ==
    /\ base = None
    /\ size = None
    /\ milk = "none"
    /\ syrups = <<>>
    /\ sugar = PyInt(0)
    /\ iced = PyBool(FALSE)
    /\ ret = Self("__init__", NoArg)
    /\ order1 = NoOrder

set_base(b) ==
    IF b \notin VALID_BASES
    THEN /\ ret' = Raise("set_base", PyS(b), "ValueError", "Invalid base '" \o b \o "'")
         /\ UNCHANGED <<base, size, milk, syrups, sugar, iced, order1>>
    ELSE /\ base' = b
         /\ ret' = Self("set_base", PyS(b))
         /\ UNCHANGED <<size, milk, syrups, sugar, iced, order1>>

set_size(sz) ==
    IF sz \notin VALID_SIZES
    THEN /\ ret' = Raise("set_size", PyS(sz), "ValueError", "Invalid size '" \o sz \o "'")
         /\ UNCHANGED <<base, size, milk, syrups, sugar, iced, order1>>
    ELSE /\ size' = sz
         /\ ret' = Self("set_size", PyS(sz))
         /\ UNCHANGED <<base, milk, syrups, sugar, iced, order1>>

\* set_milk without the validation
set_milk_unchecked(m) ==
    /\ milk' = m
    /\ ret' = Self("set_milk", PyS(m))
    /\ UNCHANGED <<base, size, syrups, sugar, iced, order1>>

set_milk(m) ==
    IF m \notin VALID_MILKS
    THEN /\ ret' = Raise("set_milk", PyS(m), "ValueError", "Invalid milk '" \o m \o "'")
         /\ UNCHANGED <<base, size, milk, syrups, sugar, iced, order1>>
    ELSE /\ milk' = m
         /\ ret' = Self("set_milk", PyS(m))
         /\ UNCHANGED <<base, size, syrups, sugar, iced, order1>>

\* add_syrup that puts the new name first
add_syrup_prepend(name) ==
    IF name \notin Range(syrups)
    THEN IF Len(syrups) >= MAX_SYRUPS
         THEN /\ ret' = Raise("add_syrup", PyS(name), "ValueError",
                              "Cannot add more than " \o ToString(MAX_SYRUPS) \o " syrups")
              /\ UNCHANGED <<base, size, milk, syrups, sugar, iced, order1>>
         ELSE /\ syrups' = <<name>> \o syrups
              /\ ret' = Self("add_syrup", PyS(name))
              /\ UNCHANGED <<base, size, milk, sugar, iced, order1>>
    ELSE /\ ret' = Self("add_syrup", PyS(name))
         /\ UNCHANGED <<base, size, milk, syrups, sugar, iced, order1>>

\* add_syrup with > in place of >= in the capacity check
add_syrup_offbyone(name) ==
    IF name \notin Range(syrups)
    THEN IF Len(syrups) > MAX_SYRUPS
         THEN /\ ret' = Raise("add_syrup", PyS(name), "ValueError",
                              "Cannot add more than " \o ToString(MAX_SYRUPS) \o " syrups")
              /\ UNCHANGED <<base, size, milk, syrups, sugar, iced, order1>>
         ELSE /\ syrups' = Append(syrups, name)
              /\ ret' = Self("add_syrup", PyS(name))
              /\ UNCHANGED <<base, size, milk, sugar, iced, order1>>
    ELSE /\ ret' = Self("add_syrup", PyS(name))
         /\ UNCHANGED <<base, size, milk, syrups, sugar, iced, order1>>

\* add_syrup with the capacity check ahead of the duplicate check
add_syrup_capfirst(name) ==
    IF Len(syrups) >= MAX_SYRUPS
    THEN /\ ret' = Raise("add_syrup", PyS(name), "ValueError",
                         "Cannot add more than " \o ToString(MAX_SYRUPS) \o " syrups")
         /\ UNCHANGED <<base, size, milk, syrups, sugar, iced, order1>>
    ELSE IF name \notin Range(syrups)
    THEN /\ syrups' = Append(syrups, name)
         /\ ret' = Self("add_syrup", PyS(name))
         /\ UNCHANGED <<base, size, milk, sugar, iced, order1>>
    ELSE /\ ret' = Self("add_syrup", PyS(name))
         /\ UNCHANGED <<base, size, milk, syrups, sugar, iced, order1>>

\* add_syrup without the duplicate check
add_syrup_nodedup(name) ==
    IF Len(syrups) >= MAX_SYRUPS
    THEN /\ ret' = Raise("add_syrup", PyS(name), "ValueError",
                         "Cannot add more than " \o ToString(MAX_SYRUPS) \o " syrups")
         /\ UNCHANGED <<base, size, milk, syrups, sugar, iced, order1>>
    ELSE /\ syrups' = Append(syrups, name)
         /\ ret' = Self("add_syrup", PyS(name))
         /\ UNCHANGED <<base, size, milk, sugar, iced, order1>>

add_syrup(name) ==
    IF name \notin Range(syrups)
    THEN IF Len(syrups) >= MAX_SYRUPS
         THEN /\ ret' = Raise("add_syrup", PyS(name), "ValueError",
                              "Cannot add more than " \o ToString(MAX_SYRUPS) \o " syrups")
              /\ UNCHANGED <<base, size, milk, syrups, sugar, iced, order1>>
         ELSE /\ syrups' = Append(syrups, name)
              /\ ret' = Self("add_syrup", PyS(name))
              /\ UNCHANGED <<base, size, milk, sugar, iced, order1>>
    ELSE /\ ret' = Self("add_syrup", PyS(name))
         /\ UNCHANGED <<base, size, milk, syrups, sugar, iced, order1>>

\* set_sugar that assigns before it checks the range
set_sugar_early(teaspoons) ==
    IF ~IsInstanceInt(teaspoons)
    THEN /\ ret' = Raise("set_sugar", teaspoons, "TypeError", "Sugar must be an int")
         /\ UNCHANGED <<base, size, milk, syrups, sugar, iced, order1>>
    ELSE /\ sugar' = teaspoons
         /\ ret' = IF teaspoons.v < MIN_SUGAR \/ teaspoons.v > MAX_SUGAR
                   THEN Raise("set_sugar", teaspoons, "ValueError",
                              "Sugar must be between " \o ToString(MIN_SUGAR) \o " and "
                                  \o ToString(MAX_SUGAR))
                   ELSE Self("set_sugar", teaspoons)
         /\ UNCHANGED <<base, size, milk, syrups, iced, order1>>

set_sugar(teaspoons) ==
    IF ~IsInstanceInt(teaspoons)
    THEN /\ ret' = Raise("set_sugar", teaspoons, "TypeError", "Sugar must be an int")
         /\ UNCHANGED <<base, size, milk, syrups, sugar, iced, order1>>
    ELSE IF teaspoons.v < MIN_SUGAR \/ teaspoons.v > MAX_SUGAR
    THEN /\ ret' = Raise("set_sugar", teaspoons, "ValueError",
                         "Sugar must be between " \o ToString(MIN_SUGAR) \o " and "
                             \o ToString(MAX_SUGAR))
         /\ UNCHANGED <<base, size, milk, syrups, sugar, iced, order1>>
    ELSE /\ sugar' = teaspoons
         /\ ret' = Self("set_sugar", teaspoons)
         /\ UNCHANGED <<base, size, milk, syrups, iced, order1>>

\* set_iced that takes any int for a bool
set_iced_lenient(flag) ==
    IF ~IsInstanceInt(flag)
    THEN /\ ret' = Raise("set_iced", flag, "TypeError", "Iced must be a bool")
         /\ UNCHANGED <<base, size, milk, syrups, sugar, iced, order1>>
    ELSE /\ iced' = flag
         /\ ret' = Self("set_iced", flag)
         /\ UNCHANGED <<base, size, milk, syrups, sugar, order1>>

\* the value of the parameter iced when set_iced is called without argument
DefaultIced == PyBool(TRUE)

set_iced(flag) ==
    IF ~IsInstanceBool(flag)
    THEN /\ ret' = Raise("set_iced", flag, "TypeError", "Iced must be a bool")
         /\ UNCHANGED <<base, size, milk, syrups, sugar, iced, order1>>
    ELSE /\ iced' = flag
         /\ ret' = Self("set_iced", flag)
         /\ UNCHANGED <<base, size, milk, syrups, sugar, order1>>

\* clear_extras that resets the base and the size as well
clear_extras_all ==
    /\ base' = None
    /\ size' = None
    /\ milk' = "none"
    /\ syrups' = <<>>
    /\ sugar' = PyInt(0)
    /\ iced' = PyBool(FALSE)
    /\ ret' = Self("clear_extras", NoArg)
    /\ UNCHANGED order1

\* clear_extras that forgets the sugar
clear_extras_keepsugar ==
    /\ milk' = "none"
    /\ syrups' = <<>>
    /\ iced' = PyBool(FALSE)
    /\ ret' = Self("clear_extras", NoArg)
    /\ UNCHANGED <<base, size, sugar, order1>>

clear_extras ==
    /\ milk' = "none"
    /\ syrups' = <<>>
    /\ sugar' = PyInt(0)
    /\ iced' = PyBool(FALSE)
    /\ ret' = Self("clear_extras", NoArg)
    /\ UNCHANGED <<base, size, order1>>

\* total_price that charges for the sugar
total_price_sugar ==
    (BASE_PRICES[base] * SIZE_MULTIPLIERS[size])
        + MILK_PRICES[milk] * 10
        + Len(syrups) * SYRUP_PRICE * 10
        + (IF Truthy(iced) THEN ICED_EXTRA ELSE 0)
        + sugar.v * 10

\* total_price that ignores the size
total_price_flat ==
    (BASE_PRICES[base] * 10)
        + MILK_PRICES[milk] * 10
        + Len(syrups) * SYRUP_PRICE * 10
        + (IF Truthy(iced) THEN ICED_EXTRA ELSE 0)

\* total_price of build, in tenths of a rouble (roubles times 10; the
\* multiplier and ICED_EXTRA are in tenths already)
total_price ==
    (BASE_PRICES[base] * SIZE_MULTIPLIERS[size])
        + MILK_PRICES[milk] * 10
        + Len(syrups) * SYRUP_PRICE * 10
        + (IF Truthy(iced) THEN ICED_EXTRA ELSE 0)

\* build that checks the size before the base
build_sizefirst(keep) ==
    IF size = None
    THEN /\ ret' = Raise("build", NoArg, "ValueError", "Size is required")
         /\ UNCHANGED <<base, size, milk, syrups, sugar, iced, order1>>
    ELSE IF base = None
    THEN /\ ret' = Raise("build", NoArg, "ValueError", "Base is required")
         /\ UNCHANGED <<base, size, milk, syrups, sugar, iced, order1>>
    ELSE LET order == CoffeeOrder(base, size, milk, [alias |-> FALSE, items |-> syrups],
                                  sugar, iced, total_price)
         IN  /\ ret' = Return("build", order)
             /\ order1' = IF keep /\ order1 = NoOrder THEN order ELSE order1
             /\ UNCHANGED <<base, size, milk, syrups, sugar, iced>>

\* build that resets the extras once the order is made
build_reset(keep) ==
    IF base = None
    THEN /\ ret' = Raise("build", NoArg, "ValueError", "Base is required")
         /\ UNCHANGED <<base, size, milk, syrups, sugar, iced, order1>>
    ELSE IF size = None
    THEN /\ ret' = Raise("build", NoArg, "ValueError", "Size is required")
         /\ UNCHANGED <<base, size, milk, syrups, sugar, iced, order1>>
    ELSE LET order == CoffeeOrder(base, size, milk, [alias |-> FALSE, items |-> syrups],
                                  sugar, iced, total_price)
         IN  /\ ret' = Return("build", order)
             /\ order1' = IF keep /\ order1 = NoOrder THEN order ELSE order1
             /\ milk' = "none"
             /\ syrups' = <<>>
             /\ sugar' = PyInt(0)
             /\ iced' = PyBool(FALSE)
             /\ UNCHANGED <<base, size>>

\* build(); keep tells whether the caller binds the returned order to order1.
\* A subscript of a price table by a value that is not one of its keys raises
\* KeyError.
build(keep) ==
    IF base = None
    THEN /\ ret' = Raise("build", NoArg, "ValueError", "Base is required")
         /\ UNCHANGED <<base, size, milk, syrups, sugar, iced, order1>>
    ELSE IF size = None
    THEN /\ ret' = Raise("build", NoArg, "ValueError", "Size is required")
         /\ UNCHANGED <<base, size, milk, syrups, sugar, iced, order1>>
    ELSE IF base \notin DOMAIN BASE_PRICES
    THEN /\ ret' = Raise("build", NoArg, "KeyError", "'" \o base \o "'")
         /\ UNCHANGED <<base, size, milk, syrups, sugar, iced, order1>>
    ELSE IF size \notin DOMAIN SIZE_MULTIPLIERS
    THEN /\ ret' = Raise("build", NoArg, "KeyError", "'" \o size \o "'")
         /\ UNCHANGED <<base, size, milk, syrups, sugar, iced, order1>>
    ELSE IF milk \notin DOMAIN MILK_PRICES
    THEN /\ ret' = Raise("build", NoArg, "KeyError", "'" \o milk \o "'")
         /\ UNCHANGED <<base, size, milk, syrups, sugar, iced, order1>>
    ELSE LET order == CoffeeOrder(base, size, milk, Tuple(syrups), sugar, iced, total_price)
         IN  /\ ret' = Return("build", order)
             /\ order1' = IF keep /\ order1 = NoOrder THEN order ELSE order1
             /\ UNCHANGED <<base, size, milk, syrups, sugar, iced>>

(***************************************************************************)
(* Arguments the callers pass.  Each specification below drives the same   *)
(* builder with its own argument sets.                                     *)
(***************************************************************************)
SyrupNames == <<"vanilla", "caramel", "hazelnut", "pumpkin spice", "extra syrup", "mint", "cocoa">>
FirstNames(k) == {SyrupNames[i] : i \in 1..k}

BaseArgs == VALID_BASES \cup {"mocha"}
SizeArgs == VALID_SIZES \cup {"huge"}
MilkArgs == VALID_MILKS \cup {"almond"}
IntsBelow == {PyInt(MIN_SUGAR - i) : i \in 1..SugarOver}
IntsAbove == {PyInt(MAX_SUGAR + i) : i \in 1..SugarOver}
SugarArgs == IntsBelow \cup IntsAbove \cup {PyInt(MIN_SUGAR), PyInt(2), PyFloat(2)}
IcedArgs == {PyBool(TRUE), PyBool(FALSE), PyInt(1)}

\* the whole price tables, as many syrup names as the builder can hold
Next ==
    \/ \E b \in BaseArgs : set_base(b)
    \/ \E sz \in SizeArgs : set_size(sz)
    \/ \E m \in MilkArgs : set_milk(m)
    \/ \E name \in FirstNames(MAX_SYRUPS) : add_syrup(name)
    \/ \E teaspoons \in SugarArgs : set_sugar(teaspoons)
    \/ \E flag \in IcedArgs : set_iced(flag)
    \/ clear_extras
    \/ build(FALSE)

Spec == Init /\ [][Next]_vars

\* more syrup names than the builder can hold, one valid base, size and milk
NextSyrups ==
    \/ \E b \in {"latte", "mocha"} : set_base(b)
    \/ \E sz \in {"medium", "huge"} : set_size(sz)
    \/ \E m \in {"oat", "almond"} : set_milk(m)
    \/ \E name \in FirstNames(MAX_SYRUPS + ExtraNames) : add_syrup(name)
    \/ \E teaspoons \in IntsBelow \cup IntsAbove \cup {PyBool(TRUE), PyS("2")} :
           set_sugar(teaspoons)
    \/ \E flag \in {PyBool(TRUE), PyInt(0), PyS("yes")} : set_iced(flag)
    \/ clear_extras
    \/ build(FALSE)

SpecSyrups == Init /\ [][NextSyrups]_vars

\* the caller keeps the first order built (order1 of the self-check) and goes on
\* using the builder
NextReuse ==
    \/ \E b \in {"latte", "mocha"} : set_base(b)
    \/ \E sz \in {"small", "medium", "huge"} : set_size(sz)
    \/ \E m \in {"none", "oat", "almond"} : set_milk(m)
    \/ \E name \in FirstNames(2) : add_syrup(name)
    \/ \E teaspoons \in IntsAbove \cup {PyInt(MIN_SUGAR), PyInt(2)} : set_sugar(teaspoons)
    \/ \E flag \in {PyBool(TRUE), PyBool(FALSE), PyInt(1)} : set_iced(flag)
    \/ clear_extras
    \/ \E keep \in BOOLEAN : build(keep)

SpecReuse == Init /\ [][NextReuse]_vars

\* the caller keeps the first order built and rebuilds with every base and size
NextRebuild ==
    \/ \E b \in BaseArgs : set_base(b)
    \/ \E sz \in SizeArgs : set_size(sz)
    \/ \E m \in {"none", "almond"} : set_milk(m)
    \/ \E name \in FirstNames(1) : add_syrup(name)
    \/ \E teaspoons \in IntsAbove \cup {PyInt(MIN_SUGAR)} : set_sugar(teaspoons)
    \/ \E flag \in {PyBool(TRUE), PyBool(FALSE), PyInt(1), PyInt(0)} : set_iced(flag)
    \/ set_iced(DefaultIced)
    \/ clear_extras
    \/ \E keep \in BOOLEAN : build(keep)

SpecRebuild == Init /\ [][NextRebuild]_vars

\* the caller constructs an order itself, with description d and price p
new_order(d, p) ==
    /\ ret' = [op |-> "CoffeeOrder", arg |-> NoArg, out |-> "CoffeeOrder", msg |-> "",
               order |-> CoffeeOrderDescribed("latte", "small", "none", Tuple(<<>>),
                                              PyInt(0), PyBool(FALSE), p, d)]
    /\ UNCHANGED <<base, size, milk, syrups, sugar, iced, order1>>

\* the caller converts the order it has just received to a string
str_order ==
    /\ ret.out = "CoffeeOrder"
    /\ ret' = Text(ret.order, __str__(View(ret.order, syrups)))
    /\ UNCHANGED <<base, size, milk, syrups, sugar, iced, order1>>

\* orders built by the builder or constructed by the caller, then converted
NextOrder ==
    \/ \E b \in {"latte", "mocha"} : set_base(b)
    \/ \E sz \in {"small", "huge"} : set_size(sz)
    \/ \E m \in {"oat", "almond"} : set_milk(m)
    \/ \E name \in FirstNames(1) : add_syrup(name)
    \/ \E teaspoons \in IntsAbove \cup {PyInt(2)} : set_sugar(teaspoons)
    \/ \E flag \in {PyBool(TRUE), PyInt(1)} : set_iced(flag)
    \/ clear_extras
    \/ build(FALSE)
    \/ \E d \in {None, "", "house special"}, p \in {0, 125, 3002} : new_order(d, p)
    \/ str_order

SpecOrder == Init /\ [][NextOrder]_vars

(***************************************************************************)
(* The claims.                                                             *)
(***************************************************************************)
Built == ret.op = "build" /\ ret.out = "CoffeeOrder"
Failed(r) == r.out \in {"ValueError", "TypeError"}
NoDuplicates(q) == \A i, j \in DOMAIN q : q[i] = q[j] => i = j

\* the price tables as the specification states them, in tenths of a rouble
StatedBasePrice ==
    [b \in {"espresso", "americano", "latte", "cappuccino"} |->
        CASE b = "espresso" -> 2000 [] b = "americano" -> 2500
          [] b = "latte" -> 3000 [] b = "cappuccino" -> 3200]
StatedMilkPrice ==
    [m \in {"none", "whole", "skim", "oat", "soy"} |->
        CASE m = "none" -> 0 [] m = "whole" -> 300 [] m = "skim" -> 300
          [] m = "oat" -> 600 [] m = "soy" -> 500]
\* base price times multiplier: 1.0, 1.2, 1.4 are 10, 12, 14 tenths
StatedSized(b, sz) ==
    CASE sz = "small" -> StatedBasePrice[b]
      [] sz = "medium" -> (StatedBasePrice[b] * 12) \div 10
      [] sz = "large" -> (StatedBasePrice[b] * 14) \div 10

\* C1: whenever build has just returned an order, its price is
\* basePrice[base]*sizeMultiplier[size] + milkPrice[milk] + 40 per stored syrup
\* + 0.2 if iced, by the stated tables; the sugar adds nothing.
C1_PriceFormula ==
    Built =>
        ret.order.price =
            StatedSized(base, size) + StatedMilkPrice[milk] + 400 * Len(syrups)
                + (IF iced = PyBool(TRUE) THEN 2 ELSE 0)

C1_Witness ==
    /\ Built
    /\ Len(syrups) = 4
    /\ milk = "oat"
    /\ iced = PyBool(TRUE)
    /\ sugar = PyInt(2)
    /\ size = "large"

\* C2: once the caller holds an order, no later call on the builder, failing
\* or not, changes any field of that order as a reader sees it.
C2_OrderUnaffected ==
    [][order1 # NoOrder => View(order1', syrups') = View(order1, syrups)]_vars

C2_Witness ==
    /\ order1 # NoOrder
    /\ Len(Items(order1.syrups, syrups)) = 2
    /\ ret.op = "clear_extras"
    /\ syrups = <<>>

\* the held order and the order just built differ in base or size and agree
\* in every extra
Rebuilt ==
    /\ Built
    /\ order1 # NoOrder
    /\ <<order1.base, order1.size>> # <<ret.order.base, ret.order.size>>
    /\ order1.milk = ret.order.milk
    /\ order1.syrups = ret.order.syrups
    /\ order1.sugar = ret.order.sugar
    /\ order1.iced = ret.order.iced

\* C3 as stated: an order rebuilt after a change of base and/or size, the
\* extras left alone, never has the price of the order built before.
C3_AsClaimed == Rebuilt => ret.order.price # order1.price

\* C3 as amended: the two prices are equal exactly when the two orders are
\* a medium americano and a small latte, which both cost 300 before extras.
C3_PriceDiffersUnlessCollision ==
    Rebuilt =>
        (ret.order.price = order1.price
            <=> {<<order1.base, order1.size>>, <<ret.order.base, ret.order.size>>}
                    = {<<"americano", "medium">>, <<"latte", "small">>})

C3_Witness ==
    /\ Rebuilt
    /\ order1.base = "espresso"
    /\ ret.order.base = "espresso"
    /\ order1.size = "small"
    /\ ret.order.size = "large"
    /\ ret.order.price # order1.price

\* C4: the builder's syrups never hold a name twice nor more than 4 names, and
\* every order built holds exactly the builder's sequence at the time of the
\* build, in insertion order.
C4_SyrupsDistinctAtMost4 ==
    /\ [](/\ NoDuplicates(syrups)
          /\ Len(syrups) <= 4
          /\ Built => /\ NoDuplicates(Items(ret.order.syrups, syrups))
                      /\ Len(Items(ret.order.syrups, syrups)) <= 4)
    /\ [][ret'.op = "build" /\ ret'.out = "CoffeeOrder"
              => Items(ret'.order.syrups, syrups') = syrups]_vars

C4_Witness ==
    /\ Built
    /\ Len(Items(ret.order.syrups, syrups)) = 4
    /\ Items(ret.order.syrups, syrups) = syrups

\* C5: a setter call that fails leaves all six builder fields as they were.
C5_FailedSetterNoMutation ==
    [][ret'.op # "build" /\ Failed(ret') => builder' = builder]_vars

C5_Witness ==
    /\ ret.op = "set_sugar"
    /\ ret.out = "ValueError"
    /\ sugar = PyBool(TRUE)
    /\ Len(syrups) = 4

\* C6: with 4 syrups held, add_syrup(name) fails with ValueError exactly when
\* name is not held; a held name succeeds; either way the 4 entries stay.
C6_FifthSyrup ==
    [][Len(syrups) = 4 /\ ret'.op = "add_syrup"
          => /\ ret'.out = "ValueError" <=> ret'.arg.s \notin Range(syrups)
             /\ ret'.arg.s \in Range(syrups) => ret'.out = "self"
             /\ syrups' = syrups]_vars

C6_Witness ==
    /\ ret.op = "add_syrup"
    /\ ret.out = "self"
    /\ Len(syrups) = 4
    /\ ret.arg.s = syrups[1]

\* C7: add_syrup of a name already held succeeds and changes no builder field.
C7_AddSyrupIdempotent ==
    [][ret'.op = "add_syrup" /\ ret'.arg.s \in Range(syrups)
          => ret'.out = "self" /\ builder' = builder]_vars

C7_Witness ==
    /\ ret.op = "add_syrup"
    /\ ret.out = "self"
    /\ Len(syrups) = 2
    /\ ret.arg.s = syrups[1]

\* C8: build fails with ValueError "Base is required" whenever base is unset,
\* with "Size is required" when only size is unset, returns no order then and
\* leaves the builder as it was.
C8_RequiredFields ==
    [][ret'.op = "build" /\ (base = None \/ size = None)
          => /\ ret'.out = "ValueError"
             /\ ret'.msg = IF base = None THEN "Base is required" ELSE "Size is required"
             /\ ret'.order = NoOrder
             /\ order1' = order1
             /\ builder' = builder]_vars

C8_Witness ==
    /\ ret.op = "build"
    /\ ret.msg = "Base is required"
    /\ base = None
    /\ size = None

\* C9: a successful build leaves all six builder fields as they were, and a
\* build right after a build returns an order equal in every field.
C9_BuildKeepsBuilder ==
    [][ret'.op = "build" /\ ret'.out = "CoffeeOrder"
          => /\ builder' = builder
             /\ Built => View(ret'.order, syrups') = View(ret.order, syrups)]_vars

C9_Witness ==
    /\ Built
    /\ order1 # NoOrder
    /\ View(ret.order, syrups) = View(order1, syrups)
    /\ milk = "oat"
    /\ Len(syrups) = 2
    /\ sugar = PyInt(2)
    /\ iced = PyBool(TRUE)

\* C10: clear_extras always succeeds, resets milk, syrups, sugar and iced,
\* keeps base and size, and a build right after it costs
\* basePrice[base]*sizeMultiplier[size] and is described as "{size} {base}".
C10_ClearExtras ==
    /\ [](ENABLED clear_extras)
    /\ [][ret'.op = "clear_extras"
              => /\ ret'.out = "self"
                 /\ milk' = "none"
                 /\ syrups' = <<>>
                 /\ sugar' = PyInt(0)
                 /\ iced' = PyBool(FALSE)
                 /\ base' = base
                 /\ size' = size]_vars
    /\ [][ret.op = "clear_extras" /\ ret'.op = "build" /\ base # None /\ size # None
              => /\ ret'.out = "CoffeeOrder"
                 /\ ret'.order.price = StatedSized(base, size)
                 /\ ret'.order.description = size \o " " \o base]_vars

C10_Witness ==
    /\ ret.op = "clear_extras"
    /\ ret.out = "self"
    /\ base = "cappuccino"
    /\ size = "medium"

\* C11: a build on a builder whose base and size are valid succeeds, whatever
\* the extras, and the price of the order is greater than 0.
C11_BuildSucceedsPositivePrice ==
    ret.op = "build"
        /\ base \in {"espresso", "americano", "latte", "cappuccino"}
        /\ size \in {"small", "medium", "large"}
    => ret.out = "CoffeeOrder" /\ ret.order.price > 0

C11_Witness ==
    /\ Built
    /\ ret.order.base = "espresso"
    /\ ret.order.size = "small"
    /\ ret.order.milk = "none"
    /\ ret.order.syrups.items = <<>>
    /\ ret.order.iced = PyBool(FALSE)
    /\ ret.order.price = 2000

\* the syrups of a description: the names in order, ", " between them
StatedSyrupList(q) ==
    CASE Len(q) = 1 -> q[1]
      [] Len(q) = 2 -> q[1] \o ", " \o q[2]
      [] Len(q) = 3 -> q[1] \o ", " \o q[2] \o ", " \o q[3]
      [] Len(q) = 4 -> q[1] \o ", " \o q[2] \o ", " \o q[3] \o ", " \o q[4]
      [] OTHER -> "?"

\* the description the rendering rule gives an order with syrups q
StatedDescription(o, q) ==
    o.size \o " " \o o.base
        \o (IF o.milk = "none" THEN "" ELSE " with " \o o.milk \o " milk")
        \o (IF q = <<>> THEN "" ELSE " +" \o StatedSyrupList(q))
        \o (IF o.iced = PyBool(TRUE) THEN " (iced)" ELSE "")
        \o (IF o.sugar.v > 0 THEN " " \o PyStr(o.sugar) \o " tsp sugar" ELSE "")

\* C12: the description of every order built is "{size} {base}", then
\* "with {milk} milk" iff milk is not "none", then "+" and the syrups joined
\* by ", " iff there are syrups, then "(iced)" iff iced, then
\* "{sugar} tsp sugar" iff sugar > 0, with single spaces between the segments.
C12_DescriptionRendering ==
    Built => ret.order.description = StatedDescription(ret.order, Items(ret.order.syrups, syrups))

C12_Witness ==
    /\ Built
    /\ ret.order.base = "latte"
    /\ ret.order.size = "medium"
    /\ ret.order.milk = "oat"
    /\ ret.order.syrups.items = <<"vanilla", "caramel">>
    /\ ret.order.sugar = PyInt(2)
    /\ ret.order.iced = PyBool(TRUE)
    /\ ret.order.description = "medium latte with oat milk +vanilla, caramel (iced) 2 tsp sugar"

\* a price of p tenths of a rouble with 2 decimals
StatedTwoDecimals(p) == ToString(p \div 10) \o "." \o ToString(p % 10) \o "0"

\* C13: str(order) is the description when that is not empty and
\* "Coffee order: {price with 2 decimals} ₽" only when it is empty; an order
\* built by the builder has a description that is not empty, so its str is
\* its description and never the fallback.
C13_StringConversion ==
    /\ [](ret.op = "__str__" =>
              /\ ret.order.description # "" => ret.msg = ret.order.description
              /\ ret.order.description = "" =>
                     ret.msg = "Coffee order: " \o StatedTwoDecimals(ret.order.price) \o " ₽"
              /\ ret.msg = "Coffee order: " \o StatedTwoDecimals(ret.order.price) \o " ₽"
                     => ret.order.description = "")
    /\ [](Built => ret.order.description # "")
    /\ [][Built /\ ret'.op = "__str__" => ret'.msg = ret.order.description]_vars

C13_Witness ==
    /\ ret.op = "__str__"
    /\ ret.order.description = ""
    /\ ret.order.price = 125
    /\ ret.msg = "Coffee order: 12.50 ₽"

\* C14: set_sugar(v) raises TypeError for every v that is not of integer
\* type, ValueError for every integer v below 0 or above 5, and for an
\* integer v in 0..5 succeeds and stores v; so the builder's sugar is an
\* integer in 0..5 in every state.
C14_AsClaimed ==
    /\ ret.op = "set_sugar" =>
           /\ ret.arg.t # "int" => ret.out = "TypeError"
           /\ ret.arg.t = "int" /\ (ret.arg.v < 0 \/ ret.arg.v > 5) => ret.out = "ValueError"
           /\ ret.arg.t = "int" /\ ret.arg.v \in 0..5 => ret.out = "self" /\ sugar = ret.arg
    /\ sugar.t = "int"
    /\ sugar.v \in 0..5

\* C15: set_iced(flag) raises TypeError for every flag that is not a bool,
\* the integers 0 and 1 included, and leaves iced as it was; for a bool it
\* sets iced to the flag; called without argument it sets iced to true.
C15_SetIced ==
    /\ [][ret'.op = "set_iced" =>
              IF ret'.arg.t = "bool"
              THEN ret'.out = "self" /\ iced' = ret'.arg
              ELSE ret'.out = "TypeError" /\ iced' = iced]_vars
    /\ [][set_iced(DefaultIced) => ret'.out = "self" /\ iced' = PyBool(TRUE)]_vars

C15_Witness ==
    /\ ret.op = "set_iced"
    /\ ret.out = "self"
    /\ ret.arg = PyBool(FALSE)
    /\ iced = PyBool(FALSE)
    /\ order1.iced = PyBool(TRUE)

\* C16: a setter that succeeds changes its own field only, to its argument:
\* set_base the base, set_size the size, set_milk the milk, set_sugar the
\* sugar, set_iced the iced flag, and add_syrup the syrups, where a new name
\* goes to the end and the entries held keep their order.
C16_SetterFrame ==
    [][ret'.out = "self" =>
          CASE ret'.op = "set_base" ->
                   base' = ret'.arg.s /\ UNCHANGED <<size, milk, syrups, sugar, iced>>
            [] ret'.op = "set_size" ->
                   size' = ret'.arg.s /\ UNCHANGED <<base, milk, syrups, sugar, iced>>
            [] ret'.op = "set_milk" ->
                   milk' = ret'.arg.s /\ UNCHANGED <<base, size, syrups, sugar, iced>>
            [] ret'.op = "set_sugar" ->
                   sugar' = ret'.arg /\ UNCHANGED <<base, size, milk, syrups, iced>>
            [] ret'.op = "set_iced" ->
                   iced' = ret'.arg /\ UNCHANGED <<base, size, milk, syrups, sugar>>
            [] ret'.op = "add_syrup" ->
                   /\ syrups' = IF ret'.arg.s \in Range(syrups)
                                 THEN syrups
                                 ELSE Append(syrups, ret'.arg.s)
                   /\ UNCHANGED <<base, size, milk, sugar, iced>>
            [] OTHER -> TRUE]_vars

C16_Witness ==
    /\ ret.op = "add_syrup"
    /\ ret.out = "self"
    /\ syrups = <<"caramel", "vanilla", "hazelnut">>
    /\ ret.arg.s = "hazelnut"
    /\ base = "americano"
    /\ size = "large"
    /\ milk = "skim"
    /\ sugar = PyInt(2)
    /\ iced = PyBool(TRUE)

\* C17: no call returns base or size to None once it is set, so once a build
\* has succeeded every later build on the builder succeeds.
C17_RequiredFieldsStaySet ==
    /\ [][(base # None => base' # None) /\ (size # None => size' # None)]_vars
    /\ [](order1 # NoOrder \/ Built => base # None /\ size # None)
    /\ [][order1 # NoOrder /\ ret'.op = "build" => ret'.out = "CoffeeOrder"]_vars

C17_Witness ==
    /\ Built
    /\ order1 # NoOrder
    /\ Len(order1.syrups.items) = 2
    /\ order1.size = "small"
    /\ ret.order.syrups.items = <<>>
    /\ ret.order.size = "medium"

\* C18: in every state base is None or a key of the base prices, size is None
\* or a key of the multipliers, milk is a key of the milk prices and iced is
\* a bool; so no table lookup of build fails, and build fails with one of
\* the two required-field errors only.
C18_FieldsValid ==
    /\ base \in {None, "espresso", "americano", "latte", "cappuccino"}
    /\ size \in {None, "small", "medium", "large"}
    /\ milk \in {"none", "whole", "skim", "oat", "soy"}
    /\ iced \in {PyBool(TRUE), PyBool(FALSE)}
    /\ ret.op = "build" /\ ret.out # "CoffeeOrder" =>
           /\ ret.out = "ValueError"
           /\ ret.msg \in {"Base is required", "Size is required"}

C18_Witness ==
    /\ ret.op = "build"
    /\ ret.out = "ValueError"
    /\ ret.msg = "Size is required"
    /\ base = "cappuccino"
    /\ milk = "whole"
    /\ iced = PyBool(TRUE)

====
